---- MODULE Spec2Model ----
(***************************************************************************)
(* Fleet orchestration tasks of tacticalrmm (api/tacticalrmm/agents/       *)
(* tasks.py): the agent-update decision and its two batch drivers, the     *)
(* outage sweep and its notification jobs, the two health sweeps, the      *)
(* script-result mail and the uninstall retry loop.                        *)
(*                                                                         *)
(* Every task invocation runs on a celery worker.  A worker's steps are    *)
(* the task's individual registry reads and writes, so that two workers    *)
(* interleave exactly where two celery processes can.                      *)
(***************************************************************************)
EXTENDS Integers, Sequences, FiniteSets, TLC

\* ------------------------------------------------------------------ bounds
\* update task invocations started in one behaviour, those of them that may
\* overlap on the two workers, and those run over a transport that can raise
MaxRuns == 3
MaxOverlap == 2
MaxFaultyRuns == 2

\* outage sweeps started in one behaviour, and agents' status changes; the
\* same for sweeps that may overlap
MaxSweeps == 3
MaxEnv == 2
MaxSweepOverlap == 2
MaxEnvOverlap == 1

\* outage sweeps and status changes in a behaviour that runs the
\* notification jobs as well
MaxNotifySweeps == 2
MaxNotifyEnv == 1

\* uninstall_agent_task: the retry budget
MaxAttempts == 10

\* the fleet (primary keys of the Agent table) and the celery workers
Agents == {1, 2}
Workers == {1, 2}

None == "None"
\* no PendingAction row, no command, no version, no table remembered
NoRow == [pk |-> 0]
NoCmd == [func |-> "none"]
NoVersion == <<>>
NoTable == [taken |-> FALSE, rows |-> {}]

\* ---------------------------------------------------------------- versions
\* A version string "1.1.11" is held as its release numbers <<1, 1, 11>>,
\* which is what packaging.version.parse compares.
RECURSIVE VerCmp(_, _)
VerCmp(a, b) ==
    IF a = <<>> /\ b = <<>> THEN 0
    ELSE LET x == IF a = <<>> THEN 0 ELSE Head(a)
             y == IF b = <<>> THEN 0 ELSE Head(b)
             ra == IF a = <<>> THEN <<>> ELSE Tail(a)
             rb == IF b = <<>> THEN <<>> ELSE Tail(b)
         IN IF x < y THEN -1
            ELSE IF x > y THEN 1
            ELSE VerCmp(ra, rb)

VerLess(a, b) == VerCmp(a, b) < 0
VerLessEq(a, b) == VerCmp(a, b) <= 0

LegacyMax == <<1, 1, 11>>

AgentVersions == {<<1, 1, 11>>, <<1, 1, 12>>}
LatestVersions == {<<1, 1, 11>>, <<1, 2, 0>>}
TargetVersions == {<<1, 1, 12>>, <<1, 2, 0>>}
QueuedVersions == {<<1, 1, 10>>, <<1, 2, 0>>}

\* ------------------------------------------------------------------- state
VARIABLES
    agents,      \* Agent table: pk -> [version, arch, has_nats]
    latest,      \* settings.LATEST_AGENT_VER
    autoUpdate,  \* CoreSettings.agent_auto_update
    actions,     \* PendingAction table, a set of rows
    nextPk,      \* next primary key of the PendingAction table
    sent,        \* commands dispatched over the push transport
    proc,        \* per worker: the update task it runs and where it is
    runs,        \* task invocations started so far
    stable,      \* PendingAction table when an auto-update run last completed
                 \* with no targeted batch since, else None
    autoSince    \* auto-update runs completed since stable was taken

uvars == <<agents, latest, autoUpdate, actions, nextPk, sent, proc, runs,
           stable, autoSince>>

VARIABLES
    oagents,     \* Agent table, the fields the outage sweep reads
    outages,     \* AgentOutage table, a set of rows
    nextOutage,  \* next primary key of the AgentOutage table
    jobs,        \* notification jobs handed to celery with .delay(), a bag
    sweep,       \* per worker: the outage sweep it runs and where it is
    sweeps,      \* outage sweeps started so far
    envSteps     \* check-ins and lapses of agents so far

ovars == <<oagents, outages, nextOutage, jobs, sweep, sweeps, envSteps>>

VARIABLES
    un           \* the uninstall task: its locals, its calls and its log

nvars == <<un>>

VARIABLES
    execs,       \* notification jobs a celery worker is running
    jlog         \* what the notification jobs have done so far, a bag

jvars == <<execs, jlog>>

VARIABLES
    fagents,     \* Agent table, the fields the health sweeps read
    fan,         \* the health sweep that runs and where it is
    units,       \* per agent: the unit the sweep handed to the thread pool
    fcalls       \* commands and calls put on the push transport, a bag

fvars == <<fagents, fan, units, fcalls>>

VARIABLES
    core,        \* CoreSettings, the mail fields
    rs           \* the script task: its arguments, its locals, mail and log

svars == <<core, rs>>

vars == <<uvars, ovars, nvars, jvars, fvars, svars>>

\* what the tasks of one subsystem leave alone
restUpdate == <<ovars, nvars, jvars, fvars, svars>>
restOutage == <<uvars, nvars, jvars, fvars, svars>>
restUninstall == <<uvars, ovars, jvars, fvars, svars>>
restNotify == <<uvars, nvars, fvars, svars>>
restFanout == <<uvars, ovars, nvars, jvars, svars>>
restScript == <<uvars, ovars, nvars, jvars, fvars>>

\* Bags are functions from elements to counts
EmptyJobs == [j \in {} |-> 0]

\* ---------------------------------------- a subsystem no task is running in
\* A worker's update task: task, target and todo are the batch driver's
\* locals, cur and action are agent_update's; ret is what agent_update last
\* returned; made, cmd, nWrites, nSent and pre record what that call wrote,
\* dispatched and found; called lists the agents agent_update was called for.
IdleProc ==
    [task |-> "none", target |-> NoVersion, todo |-> <<>>, pc |-> "idle",
     cur |-> 0, action |-> NoRow, ret |-> "none", made |-> NoRow, cmd |-> NoCmd,
     nWrites |-> 0, nSent |-> 0, pre |-> {}, called |-> <<>>]

IdleSweep ==
    [pc |-> "idle", todo |-> <<>>, cur |-> 0, seen |-> "none", outage |-> 0,
     run |-> 0]

IdleUninstall(has_nats) ==
    [pc |-> "start", has_nats |-> has_nats, attempts |-> 0, error |-> FALSE,
     calls |-> <<>>, keyCalls |-> <<>>, log |-> <<>>, ret |-> "none"]

UpdateOff ==
    /\ agents = [a \in Agents |->
                   [version |-> LegacyMax, arch |-> None, has_nats |-> FALSE]]
    /\ latest = LegacyMax
    /\ autoUpdate = FALSE
    /\ actions = {}
    /\ nextPk = 1
    /\ sent = {}
    /\ proc = [w \in Workers |-> IdleProc]
    /\ runs = 0
    /\ stable = NoTable
    /\ autoSince = 0

OutageOff ==
    /\ oagents = [a \in Agents |->
                    [overdue_email_alert |-> FALSE, overdue_text_alert |-> FALSE,
                     maintenance_mode |-> FALSE, status |-> "online"]]
    /\ outages = {}
    /\ nextOutage = 1
    /\ jobs = EmptyJobs
    /\ sweep = [w \in Workers |-> IdleSweep]
    /\ sweeps = 0
    /\ envSteps = 0

UninstallOff == un = IdleUninstall(TRUE)

NotifyOff ==
    /\ execs = {}
    /\ jlog = EmptyJobs

IdleUnit == [pc |-> "none", reply |-> "none", after |-> 0]

IdleFan == [task |-> "none", pc |-> "idle", selected |-> <<>>, ret |-> "none"]

FanoutOff ==
    /\ fagents = [a \in Agents |->
                    [has_nats |-> FALSE, status |-> "online",
                     version |-> LegacyMax]]
    /\ fan = IdleFan
    /\ units = [a \in Agents |-> IdleUnit]
    /\ fcalls = EmptyJobs

NoReply == [kind |-> "none", retcode |-> 0]

IdleScript(emails) ==
    [pc |-> "start", emails |-> emails, r |-> NoReply, to |-> <<>>,
     mails |-> <<>>, log |-> <<>>]

ScriptOff ==
    /\ core = [email_alert_recipients |-> <<>>, smtp_requires_auth |-> FALSE]
    /\ rs = IdleScript(<<>>)

\* every subsystem but the one a specification runs is off
OthersOff(on) ==
    /\ on # "update" => UpdateOff
    /\ on # "outage" => OutageOff /\ NotifyOff
    /\ on # "uninstall" => UninstallOff
    /\ on # "fanout" => FanoutOff
    /\ on # "script" => ScriptOff

\* ------------------------------------------------------------ agent fields
Archs == {None, "64"}

AgentRecs == [version : AgentVersions, arch : Archs, has_nats : BOOLEAN]

winagent_dl(pk) == <<"winagent_dl", agents[pk].arch>>
win_inno_exe(pk) == <<"win_inno_exe", agents[pk].arch>>

\* ----------------------------------------------------- PendingAction table
\* agent.pendingactions.filter(action_type="agentupdate", status="pending")
PendingUpdates(tbl, pk) ==
    {r \in tbl : r.agent = pk /\ r.action_type = "agentupdate"
                              /\ r.status = "pending"}

\* QuerySet.last(): the row of greatest primary key, None on an empty set
LastRow(rows) ==
    IF rows = {} THEN NoRow
    ELSE CHOOSE r \in rows : \A q \in rows : q.pk <= r.pk

\* action.delete()
DeleteRow_Noop(tbl, row) == tbl
DeleteRow(tbl, row) == tbl \ {row}

\* PendingAction.objects.create(agent=..., action_type="agentupdate", details=...)
NewAction_AgentVersion(pk, agent, version) ==
    [pk |-> pk, agent |-> agent, action_type |-> "agentupdate",
     status |-> "pending", version |-> agents[agent].version,
     url |-> winagent_dl(agent), inno |-> win_inno_exe(agent)]
NewAction(pk, agent, version) ==
    [pk |-> pk, agent |-> agent, action_type |-> "agentupdate",
     status |-> "pending", version |-> version,
     url |-> winagent_dl(agent), inno |-> win_inno_exe(agent)]

\* pyver.parse(action.details["version"]) < pyver.parse(version)
NeedsReplace_Le(action, version) == VerLessEq(action.version, version)
NeedsReplace(action, version) == VerLess(action.version, version)

\* pyver.parse(agent.version) <= pyver.parse("1.1.11")
IsLegacy_Strict(v) == VerLess(v, LegacyMax)
IsLegacy(v) == VerLessEq(v, LegacyMax)

\* The branch agent_update takes on the agent's own fields
EntryPath_NatsFirst(agent) ==
    IF ~agent.has_nats THEN "not supported"
    ELSE IF agent.arch = None THEN "noarch"
    ELSE IF IsLegacy(agent.version) THEN "legacy"
    ELSE "modern"
EntryPath(agent) ==
    IF agent.arch = None THEN "noarch"
    ELSE IF ~agent.has_nats THEN "not supported"
    ELSE IF IsLegacy(agent.version) THEN "legacy"
    ELSE "modern"

\* [i.pk for i in q if ...]: the primary keys of S in ascending order
RECURSIVE PkList(_)
PkList(S) ==
    IF S = {} THEN <<>>
    ELSE LET m == CHOOSE x \in S : \A y \in S : x <= y
         IN <<m>> \o PkList(S \ {m})

\* send_agent_update_task's filter
SendFilter(pks, version) ==
    PkList({pk \in pks : VerLess(agents[pk].version, version)})

\* line 118: if not core.agent_auto_update: return
AutoEnabled_Always(flag) == TRUE
AutoEnabled(flag) == flag

\* auto_self_agent_update_task's filter
AutoFilter == PkList({pk \in Agents : VerLess(agents[pk].version, latest)})

\* ------------------------------------------------------------------ workers
InitRowKinds ==
    {NoRow}
    \cup [action_type : {"agentupdate"}, status : {"pending"},
          version : QueuedVersions]
    \cup [action_type : {"agentupdate"}, status : {"completed"},
          version : {<<1, 2, 0>>}]

InitTable(f) ==
    {[pk |-> a, agent |-> a, action_type |-> f[a].action_type,
      status |-> f[a].status, version |-> f[a].version,
      url |-> <<"winagent_dl", "64">>, inno |-> <<"win_inno_exe", "64">>]
        : a \in {x \in Agents : f[x] # NoRow}}

UpdateInit ==
    /\ agents \in [Agents -> AgentRecs]
    /\ latest \in LatestVersions
    /\ autoUpdate \in BOOLEAN
    /\ \E f \in [Agents -> InitRowKinds] : actions = InitTable(f)
    /\ nextPk = Cardinality(Agents) + 1
    /\ sent = {}
    /\ proc = [w \in Workers |-> IdleProc]
    /\ runs = 0
    /\ stable = NoTable
    /\ autoSince = 0
    /\ OthersOff("update")

\* the fleets whose agents all reach the registry or the transport in
\* agent_update: push-capable, of known architecture
UpdateOverlapInit ==
    /\ UpdateInit
    /\ \A a \in Agents : agents[a].has_nats /\ agents[a].arch # None

\* A completed auto-update run: remember the table it left
AutoCompleted ==
    /\ stable' = IF stable.taken THEN stable
                 ELSE [taken |-> TRUE, rows |-> actions]
    /\ autoSince' = autoSince + 1

\* send_agent_update_task(pks, version): lines 105-109; cap bounds the
\* invocations of one behaviour
StartSend(w, pks, version, cap) ==
    /\ UNCHANGED restUpdate
    /\ proc[w].pc = "idle"
    /\ runs < cap
    /\ runs' = runs + 1
    /\ proc' = [proc EXCEPT ![w] =
                  [IdleProc EXCEPT !.task = "send", !.target = version,
                                   !.todo = SendFilter(pks, version),
                                   !.pc = "loop"]]
    /\ stable' = NoTable
    /\ autoSince' = 0
    /\ UNCHANGED <<agents, latest, autoUpdate, actions, nextPk, sent>>

\* auto_self_agent_update_task(): lines 116-127
StartAuto(w, cap) ==
    /\ UNCHANGED restUpdate
    /\ proc[w].pc = "idle"
    /\ runs < cap
    /\ runs' = runs + 1
    /\ IF ~AutoEnabled(autoUpdate)
       THEN /\ proc' = [proc EXCEPT ![w] = [IdleProc EXCEPT !.task = "auto"]]
            /\ AutoCompleted
       ELSE /\ proc' = [proc EXCEPT ![w] =
                          [IdleProc EXCEPT !.task = "auto", !.todo = AutoFilter,
                                           !.pc = "loop"]]
            /\ UNCHANGED <<stable, autoSince>>
    /\ UNCHANGED <<agents, latest, autoUpdate, actions, nextPk, sent>>

\* for pk in agents: agent_update(pk), up to the branch on the agent's fields
Call(w) ==
    /\ UNCHANGED restUpdate
    /\ proc[w].pc = "loop"
    /\ proc[w].todo # <<>>
    /\ LET pk == Head(proc[w].todo)
           path == EntryPath(agents[pk])
           p == [proc[w] EXCEPT !.todo = Tail(proc[w].todo), !.cur = pk,
                                !.called = Append(@, pk),
                                !.action = NoRow, !.ret = "none",
                                !.made = NoRow, !.cmd = NoCmd, !.nWrites = 0,
                                !.nSent = 0, !.pre = actions]
       IN proc' = [proc EXCEPT ![w] =
            CASE path = "noarch" -> [p EXCEPT !.ret = "noarch"]
              [] path = "not supported" -> [p EXCEPT !.ret = "not supported"]
              [] path = "legacy" -> [p EXCEPT !.pc = "exists"]
              [] OTHER -> [p EXCEPT !.pc = "send"]]
    /\ UNCHANGED <<agents, latest, autoUpdate, actions, nextPk, sent, runs,
                   stable, autoSince>>

\* the batch has no agent left: the task returns
Done(w) ==
    /\ UNCHANGED restUpdate
    /\ proc[w].pc = "loop"
    /\ proc[w].todo = <<>>
    /\ proc' = [proc EXCEPT ![w].pc = "idle"]
    /\ IF proc[w].task = "auto"
       THEN AutoCompleted
       ELSE UNCHANGED <<stable, autoSince>>
    /\ UNCHANGED <<agents, latest, autoUpdate, actions, nextPk, sent, runs>>

\* line 68: .filter(...).exists()
Exists(w) ==
    /\ UNCHANGED restUpdate
    /\ proc[w].pc = "exists"
    /\ proc' = [proc EXCEPT ![w].pc =
                  IF PendingUpdates(actions, proc[w].cur) # {}
                  THEN "last" ELSE "create"]
    /\ UNCHANGED <<agents, latest, autoUpdate, actions, nextPk, sent, runs,
                   stable, autoSince>>

\* lines 71-77: .filter(...).last() and the version comparison.  With the row
\* deleted by another worker since line 68, last() is None and line 74
\* raises, which ends the task.
Last(w) ==
    /\ UNCHANGED restUpdate
    /\ proc[w].pc = "last"
    /\ LET a == LastRow(PendingUpdates(actions, proc[w].cur))
       IN proc' = [proc EXCEPT ![w] =
            IF a = NoRow
            THEN [@ EXCEPT !.ret = "raised", !.pc = "idle", !.todo = <<>>]
            ELSE IF NeedsReplace(a, latest)
            THEN [@ EXCEPT !.action = a, !.pc = "delete"]
            ELSE [@ EXCEPT !.action = a, !.ret = "pending", !.pc = "loop"]]
    /\ UNCHANGED <<agents, latest, autoUpdate, actions, nextPk, sent, runs,
                   stable, autoSince>>

\* line 75: action.delete()
Delete(w) ==
    /\ UNCHANGED restUpdate
    /\ proc[w].pc = "delete"
    /\ actions' = DeleteRow(actions, proc[w].action)
    /\ proc' = [proc EXCEPT ![w].pc = "create",
                            ![w].nWrites = @ + 1]
    /\ UNCHANGED <<agents, latest, autoUpdate, nextPk, sent, runs, stable,
                   autoSince>>

\* lines 79-87 and 99: PendingAction.objects.create(...); return "created"
Create(w) ==
    /\ UNCHANGED restUpdate
    /\ proc[w].pc = "create"
    /\ LET row == NewAction(nextPk, proc[w].cur, latest)
       IN /\ actions' = actions \cup {row}
          /\ proc' = [proc EXCEPT ![w].made = row, ![w].nWrites = @ + 1,
                                  ![w].ret = "created", ![w].pc = "loop"]
    /\ nextPk' = nextPk + 1
    /\ UNCHANGED <<agents, latest, autoUpdate, sent, runs, stable, autoSince>>

\* lines 89-99: agent.nats_cmd(nats_data, wait=False); return "created"
Send(w) ==
    /\ UNCHANGED restUpdate
    /\ proc[w].pc = "send"
    /\ LET c == [agent |-> proc[w].cur, func |-> "agentupdate",
                 version |-> latest, url |-> winagent_dl(proc[w].cur),
                 inno |-> win_inno_exe(proc[w].cur), wait |-> FALSE]
       IN /\ sent' = sent \cup {c}
          /\ proc' = [proc EXCEPT ![w].cmd = c, ![w].nSent = @ + 1,
                                  ![w].ret = "created", ![w].pc = "loop"]
    /\ UNCHANGED <<agents, latest, autoUpdate, actions, nextPk, runs, stable,
                   autoSince>>

\* line 89 when the transport raises: agent_update has no except for it, nor
\* has the loop of either batch driver (lines 111-112, 129-130), so the task
\* ends there with the rest of its agents untouched
SendRaises(w) ==
    /\ UNCHANGED restUpdate
    /\ proc[w].pc = "send"
    /\ proc' = [proc EXCEPT ![w].ret = "raised", ![w].pc = "idle"]
    /\ UNCHANGED <<agents, latest, autoUpdate, actions, nextPk, sent, runs,
                   stable, autoSince>>

UpdateStep(w, cap) ==
    \/ \E pks \in SUBSET Agents, v \in TargetVersions :
           StartSend(w, pks, v, cap)
    \/ StartAuto(w, cap)
    \/ Call(w)
    \/ Done(w)
    \/ Exists(w)
    \/ Last(w)
    \/ Delete(w)
    \/ Create(w)
    \/ Send(w)

\* overlapping invocations on the celery workers
UpdateNext == \E w \in Workers : UpdateStep(w, MaxOverlap)

\* one invocation after the other
UpdateSeqNext == UpdateStep(1, MaxRuns)

SpecUpdate == UpdateOverlapInit /\ [][UpdateNext]_vars

SpecUpdateSeq == UpdateInit /\ [][UpdateSeqNext]_vars

\* one invocation after the other, over a transport whose dispatch can raise
UpdateFaultyNext ==
    \/ UpdateStep(1, MaxFaultyRuns)
    \/ SendRaises(1)

SpecUpdateFaulty == UpdateInit /\ [][UpdateFaultyNext]_vars

\* =========================================================== outage sweep
Statuses == {"online", "offline", "overdue"}

OAgentRecs ==
    [overdue_email_alert : BOOLEAN, overdue_text_alert : BOOLEAN,
     maintenance_mode : BOOLEAN, status : Statuses]

\* AgentOutage.objects.filter(agent=agent)
OutagesOf(tbl, pk) == {r \in tbl : r.agent = pk}

FirstOutage(rows) == CHOOSE r \in rows : \A q \in rows : r.pk <= q.pk
LastOutage(rows) == CHOOSE r \in rows : \A q \in rows : q.pk <= r.pk

\* AgentOutage.is_active: no recovery recorded yet
is_active(r) == ~r.recovered

\* line 279: outages and outages.last().is_active
AlreadyOpen_First(rows) == rows # {} /\ is_active(FirstOutage(rows))
AlreadyOpen(rows) == rows # {} /\ is_active(LastOutage(rows))

\* line 276: the agent has an alert flag set
Alerting(a) == a.overdue_email_alert \/ a.overdue_text_alert

\* AgentOutage(agent=agent); the run that saved it and the status that run
\* read at line 277 are kept as history
NewOutage(pk, agent, run, seen) ==
    [pk |-> pk, agent |-> agent, recovered |-> FALSE, run |-> run,
     seen |-> seen,
     outage_email_sent |-> FALSE, outage_sms_sent |-> FALSE,
     recovery_email_sent |-> FALSE, recovery_sms_sent |-> FALSE]

\* task.delay(pk=outage.pk): one more message on the queue
Delay(q, j) ==
    [x \in DOMAIN q \cup {j} |->
        (IF x \in DOMAIN q THEN q[x] ELSE 0) + (IF x = j THEN 1 ELSE 0)]

\* lines 285-289: the jobs the sweep schedules for the outage it saved
Scheduled_NoMaint(q, a, pk, run) ==
    LET q1 == IF a.overdue_email_alert
              THEN Delay(q, [task |-> "agent_outage_email_task", pk |-> pk,
                             run |-> run])
              ELSE q
    IN IF a.overdue_text_alert
       THEN Delay(q1, [task |-> "agent_outage_sms_task", pk |-> pk,
                       run |-> run])
       ELSE q1
Scheduled(q, a, pk, run) ==
    LET q1 == IF a.overdue_email_alert /\ ~a.maintenance_mode
              THEN Delay(q, [task |-> "agent_outage_email_task", pk |-> pk,
                             run |-> run])
              ELSE q
    IN IF a.overdue_text_alert /\ ~a.maintenance_mode
       THEN Delay(q1, [task |-> "agent_outage_sms_task", pk |-> pk,
                       run |-> run])
       ELSE q1

OutageInit ==
    /\ oagents \in [Agents -> OAgentRecs]
    /\ outages = {}
    /\ nextOutage = 1
    /\ jobs = EmptyJobs
    /\ sweep = [w \in Workers |-> IdleSweep]
    /\ sweeps = 0
    /\ envSteps = 0
    /\ NotifyOff
    /\ OthersOff("outage")

\* agent_outages_task(): lines 270-275, the queryset the loop runs over
SweepStart(w, cap) ==
    /\ UNCHANGED restOutage
    /\ sweep[w].pc = "idle"
    /\ sweeps < cap
    /\ sweeps' = sweeps + 1
    /\ sweep' = [sweep EXCEPT ![w] =
                   [IdleSweep EXCEPT !.pc = "loop", !.todo = PkList(Agents),
                                     !.run = sweeps + 1]]
    /\ UNCHANGED <<oagents, outages, nextOutage, jobs, envSteps>>

\* lines 276-280: the next agent, its flags and status, its last outage
SweepCheck(w) ==
    /\ UNCHANGED restOutage
    /\ sweep[w].pc = "loop"
    /\ sweep[w].todo # <<>>
    /\ LET pk == Head(sweep[w].todo)
           a == oagents[pk]
           create == /\ Alerting(a)
                     /\ a.status = "overdue"
                     /\ ~AlreadyOpen(OutagesOf(outages, pk))
       IN sweep' = [sweep EXCEPT ![w].todo = Tail(@), ![w].cur = pk,
                                 ![w].seen = a.status, ![w].outage = 0,
                                 ![w].pc = IF create THEN "save" ELSE "loop"]
    /\ UNCHANGED <<oagents, outages, nextOutage, jobs, sweeps, envSteps>>

\* lines 282-283: outage = AgentOutage(agent=agent); outage.save()
SweepSave(w) ==
    /\ UNCHANGED restOutage
    /\ sweep[w].pc = "save"
    /\ outages' = outages \cup {NewOutage(nextOutage, sweep[w].cur, sweep[w].run,
                                         sweep[w].seen)}
    /\ nextOutage' = nextOutage + 1
    /\ sweep' = [sweep EXCEPT ![w].outage = nextOutage, ![w].pc = "notify"]
    /\ UNCHANGED <<oagents, jobs, sweeps, envSteps>>

\* lines 285-289: agent_outage_email_task.delay, agent_outage_sms_task.delay
SweepNotify(w) ==
    /\ UNCHANGED restOutage
    /\ sweep[w].pc = "notify"
    /\ jobs' = Scheduled(jobs, oagents[sweep[w].cur], sweep[w].outage,
                         sweep[w].run)
    /\ sweep' = [sweep EXCEPT ![w].pc = "loop"]
    /\ UNCHANGED <<oagents, outages, nextOutage, sweeps, envSteps>>

\* the loop has no agent left: the task returns
SweepDone(w) ==
    /\ UNCHANGED restOutage
    /\ sweep[w].pc = "loop"
    /\ sweep[w].todo = <<>>
    /\ sweep' = [sweep EXCEPT ![w].pc = "idle"]
    /\ UNCHANGED <<oagents, outages, nextOutage, jobs, sweeps, envSteps>>

\* The agent checks in: it is online again and its open outage is resolved
CheckIn(pk, cap) ==
    /\ UNCHANGED restOutage
    /\ envSteps < cap
    /\ oagents[pk].status # "online"
    /\ envSteps' = envSteps + 1
    /\ oagents' = [oagents EXCEPT ![pk].status = "online"]
    /\ outages' = {IF r.agent = pk THEN [r EXCEPT !.recovered = TRUE] ELSE r
                     : r \in outages}
    /\ UNCHANGED <<nextOutage, jobs, sweep, sweeps>>

\* Time passes with no check-in: online, then offline, then overdue
Lapse(pk, status, cap) ==
    /\ UNCHANGED restOutage
    /\ envSteps < cap
    /\ \/ oagents[pk].status = "online" /\ status \in {"offline", "overdue"}
       \/ oagents[pk].status = "offline" /\ status = "overdue"
    /\ envSteps' = envSteps + 1
    /\ oagents' = [oagents EXCEPT ![pk].status = status]
    /\ UNCHANGED <<outages, nextOutage, jobs, sweep, sweeps>>

SweepStep(w, cap) ==
    \/ SweepStart(w, cap)
    \/ SweepCheck(w)
    \/ SweepSave(w)
    \/ SweepNotify(w)
    \/ SweepDone(w)

Environment(cap) ==
    \/ \E pk \in Agents : CheckIn(pk, cap)
    \/ \E pk \in Agents, st \in Statuses : Lapse(pk, st, cap)

\* overlapping sweeps on the celery workers
OutageNext ==
    \/ \E w \in Workers : SweepStep(w, MaxSweepOverlap)
    \/ Environment(MaxEnvOverlap)

\* one sweep after the other
OutageSeqNext ==
    \/ SweepStep(1, MaxSweeps)
    \/ Environment(MaxEnv)

SpecOutage == OutageInit /\ [][OutageNext]_vars

SpecOutageSeq == OutageInit /\ [][OutageSeqNext]_vars

\* ======================================================= notification jobs
JobTasks ==
    {"agent_outage_email_task", "agent_recovery_email_task",
     "agent_outage_sms_task", "agent_recovery_sms_task"}

RecoveryTasks == {"agent_recovery_email_task", "agent_recovery_sms_task"}

\* the column each job sets: lines 238, 247, 256, 265
FlagOf(task) ==
    CASE task = "agent_outage_email_task" -> "outage_email_sent"
      [] task = "agent_recovery_email_task" -> "recovery_email_sent"
      [] task = "agent_outage_sms_task" -> "outage_sms_sent"
      [] OTHER -> "recovery_sms_sent"

\* AgentOutage.objects.get(pk=pk)
GetOutage(tbl, pk) == CHOOSE r \in tbl : r.pk = pk

\* outage.save(update_fields=[...]): only the named columns are written
SaveFields_All(row, copy, fields) == copy
SaveFields(row, copy, fields) ==
    [f \in DOMAIN row |-> IF f \in fields THEN copy[f] ELSE row[f]]

\* lines 237-238: the flag is set on the line after the notifier's, which an
\* exception of the notifier never reaches
AfterNotify_Swallow(result) == "save"
AfterNotify(result) == IF result = "raise" THEN "failed" ELSE "save"

Count(b, x) == IF x \in DOMAIN b THEN b[x] ELSE 0

\* a celery worker takes a message from the queue
Take(q, j) ==
    [x \in {y \in DOMAIN q : y # j \/ q[y] > 1} |->
        IF x = j THEN q[x] - 1 ELSE q[x]]

Event(ev, task, pk) == [ev |-> ev, task |-> task, pk |-> pk]

\* the job of one kind that is running for an outage
Exec(task, pk) == CHOOSE e \in execs : e.task = task /\ e.pk = pk

Running(task, pk, pc) ==
    \E e \in execs : e.task = task /\ e.pk = pk /\ e.pc = pc

\* a worker starts a job the sweep has queued; the sleep of lines 235 and
\* 253 is the time until its next step
JobStart(task, pk) ==
    /\ UNCHANGED restNotify
    /\ \E j \in DOMAIN jobs :
           /\ j.task = task
           /\ j.pk = pk
           /\ jobs' = Take(jobs, j)
    /\ \A e \in execs : ~(e.task = task /\ e.pk = pk)
    /\ execs' = execs \cup {[task |-> task, pk |-> pk, pc |-> "get",
                              copy |-> NoRow]}
    /\ jlog' = Delay(jlog, Event("started", task, pk))
    /\ UNCHANGED <<oagents, outages, nextOutage, sweep, sweeps, envSteps>>

\* the recovery jobs are queued, once each, for an outage that has been
\* resolved, and a worker starts one
RecoveryStart(task, pk) ==
    /\ UNCHANGED restNotify
    /\ task \in RecoveryTasks
    /\ \E r \in outages : r.pk = pk /\ r.recovered
    /\ Count(jlog, Event("started", task, pk)) = 0
    /\ execs' = execs \cup {[task |-> task, pk |-> pk, pc |-> "get",
                              copy |-> NoRow]}
    /\ jlog' = Delay(jlog, Event("started", task, pk))
    /\ UNCHANGED ovars

\* lines 236, 245, 254, 263: outage = AgentOutage.objects.get(pk=pk)
JobGet(task, pk) ==
    /\ UNCHANGED restNotify
    /\ Running(task, pk, "get")
    /\ LET e == Exec(task, pk)
       IN execs' = (execs \ {e})
                      \cup {[e EXCEPT !.pc = "notify",
                                      !.copy = GetOutage(outages, pk)]}
    /\ UNCHANGED <<ovars, jlog>>

\* lines 237, 246, 255, 264: the notifier returns or raises; a job whose
\* notifier raised ends there
JobNotify(task, pk, result) ==
    /\ UNCHANGED restNotify
    /\ Running(task, pk, "notify")
    /\ jlog' = Delay(jlog, Event(IF result = "raise" THEN "raised"
                                 ELSE "notified", task, pk))
    /\ LET e == Exec(task, pk)
       IN execs' = IF AfterNotify(result) = "save"
                   THEN (execs \ {e}) \cup {[e EXCEPT !.pc = "save"]}
                   ELSE execs \ {e}
    /\ UNCHANGED ovars

\* lines 238-239, 247-248, 256-257, 265-266: set the flag on the copy and
\* save that column
JobSave(task, pk) ==
    /\ UNCHANGED restNotify
    /\ Running(task, pk, "save")
    /\ LET e == Exec(task, pk)
           row == GetOutage(outages, pk)
           copy == [e.copy EXCEPT ![FlagOf(task)] = TRUE]
       IN /\ outages' = (outages \ {row})
                           \cup {SaveFields(row, copy, {FlagOf(task)})}
          /\ jlog' = Delay(jlog, Event(IF row = e.copy THEN "saved"
                                       ELSE "saved late", task, pk))
          /\ execs' = execs \ {e}
    /\ UNCHANGED <<oagents, nextOutage, jobs, sweep, sweeps, envSteps>>

\* primary keys the AgentOutage rows of one behaviour can have
OutagePks == 1..MaxNotifySweeps

JobStep(task, pk) ==
    \/ JobStart(task, pk)
    \/ RecoveryStart(task, pk)
    \/ JobGet(task, pk)
    \/ \E res \in {"ok", "raise"} : JobNotify(task, pk, res)
    \/ JobSave(task, pk)

\* a fleet with one agent the sweep acts on: overdue, with an alert flag
\* set; the others are online with no alert flag
NotifyInit ==
    /\ OutageInit
    /\ oagents[1].status = "overdue"
    /\ Alerting(oagents[1])
    /\ \A a \in Agents \ {1} :
           oagents[a] = [overdue_email_alert |-> FALSE,
                         overdue_text_alert |-> FALSE,
                         maintenance_mode |-> FALSE, status |-> "online"]

\* one sweep after the other, the agent's check-in, and the jobs on the
\* celery workers
NotifyNext ==
    \/ SweepStep(1, MaxNotifySweeps)
    \/ \E pk \in Agents : CheckIn(pk, MaxNotifyEnv)
    \/ \E t \in JobTasks, pk \in OutagePks : JobStep(t, pk)

SpecNotify == NotifyInit /\ [][NotifyNext]_vars

\* ========================================================== health sweeps
FAgentRecs == [has_nats : BOOLEAN, status : Statuses, version : AgentVersions]

\* pyver.parse("1.1.12"), the lowest version check_in_task calls
CheckInMin == <<1, 1, 12>>

\* line 49: i.has_nats and i.status != "online"
MonitorFilter(a) == a.has_nats /\ a.status # "online"

\* line 41: pyver.parse(i.version) >= pyver.parse("1.1.12")
CheckInFilter(a) == VerLessEq(CheckInMin, a.version)

\* the pks the sweep hands to executor.map
Selection(task) ==
    IF task = "monitor_agents_task"
    THEN PkList({pk \in Agents : MonitorFilter(fagents[pk])})
    ELSE PkList({pk \in Agents : CheckInFilter(fagents[pk])})

InSeq(x, q) == \E i \in 1..Len(q) : q[i] = x

\* line 24: if r == "pong"
Alive_NotTimeout(r) == r # "timeout"
Alive(r) == r = "pong"

PingReplies == {"pong", "timeout", "natsdown"}

PingCall(pk) == [agent |-> pk, func |-> "ping", mode |-> "none", wait |-> TRUE]

RecoverCmd(pk) ==
    [agent |-> pk, func |-> "recover", mode |-> "tacagent", wait |-> FALSE]

CheckInCmd(pk) ==
    [agent |-> pk, func |-> "checkinfull", mode |-> "none", wait |-> FALSE]

\* A unit that raises: executor.map has submitted every unit by then and
\* its results are never read, so the exception stays in the unit's future
\* and the other units are as they were.
AfterRaise_Abort(u, pk) ==
    [a \in DOMAIN u |->
        IF a = pk THEN [u[a] EXCEPT !.pc = "raised"]
        ELSE IF u[a].pc = "queued" THEN [u[a] EXCEPT !.pc = "cancelled"]
        ELSE u[a]]
AfterRaise(u, pk) == [u EXCEPT ![pk].pc = "raised"]

Finished(u, pk) == u[pk].pc \in {"done", "raised", "cancelled"}

FanoutInit ==
    /\ fagents \in [Agents -> FAgentRecs]
    /\ fan = IdleFan
    /\ units = [a \in Agents |-> IdleUnit]
    /\ fcalls = EmptyJobs
    /\ OthersOff("fanout")

\* lines 38-44 and 48-52, up to executor.map: every selected agent's unit
\* is submitted to the pool
FanStart(task) ==
    /\ UNCHANGED restFanout
    /\ fan.pc = "idle"
    /\ fan' = [fan EXCEPT !.task = task, !.pc = "pool",
                          !.selected = Selection(task)]
    /\ units' = [a \in Agents |->
                   IF InSeq(a, Selection(task))
                   THEN [IdleUnit EXCEPT !.pc = "queued"]
                   ELSE IdleUnit]
    /\ UNCHANGED <<fagents, fcalls>>

\* lines 22 and 33: a pool thread starts the unit, agent =
\* Agent.objects.get(pk=pk); after counts the units that had raised by then
UnitGet(pk) ==
    /\ UNCHANGED restFanout
    /\ units[pk].pc = "queued"
    /\ units' = [units EXCEPT
                   ![pk].pc = IF fan.task = "monitor_agents_task"
                              THEN "ping" ELSE "checkin",
                   ![pk].after =
                       Cardinality({a \in Agents : units[a].pc = "raised"})]
    /\ UNCHANGED <<fagents, fan, fcalls>>

\* lines 23-24: r = agent.nats_cmd({"func": "ping"}, timeout=2)
UnitPing(pk, reply) ==
    /\ UNCHANGED restFanout
    /\ units[pk].pc = "ping"
    /\ fcalls' = Delay(fcalls, PingCall(pk))
    /\ units' = [units EXCEPT ![pk].reply = reply,
                              ![pk].pc = IF Alive(reply) THEN "recover"
                                         ELSE "done"]
    /\ UNCHANGED <<fagents, fan>>

\* lines 28-29: agent.nats_cmd({"func": "recover", ...}, wait=False)
UnitRecover(pk) ==
    /\ UNCHANGED restFanout
    /\ units[pk].pc = "recover"
    /\ fcalls' = Delay(fcalls, RecoverCmd(pk))
    /\ units' = [units EXCEPT ![pk].pc = "done"]
    /\ UNCHANGED <<fagents, fan>>

\* line 34: agent.nats_cmd({"func": "checkinfull"}, wait=False)
UnitCheckIn(pk) ==
    /\ UNCHANGED restFanout
    /\ units[pk].pc = "checkin"
    /\ fcalls' = Delay(fcalls, CheckInCmd(pk))
    /\ units' = [units EXCEPT ![pk].pc = "done"]
    /\ UNCHANGED <<fagents, fan>>

\* the registry lookup of lines 22 and 33 raises
UnitLookupRaises(pk) ==
    /\ UNCHANGED restFanout
    /\ units[pk].pc = "queued"
    /\ units' = AfterRaise(units, pk)
    /\ UNCHANGED <<fagents, fan, fcalls>>

\* the transport call of lines 23, 29 and 34 raises
UnitCallRaises(pk) ==
    /\ UNCHANGED restFanout
    /\ units[pk].pc \in {"ping", "recover", "checkin"}
    /\ units' = AfterRaise(units, pk)
    /\ UNCHANGED <<fagents, fan, fcalls>>

\* the with block ends: shutdown(wait=True) has waited for every unit, and
\* the task returns
FanReturn ==
    /\ UNCHANGED restFanout
    /\ fan.pc = "pool"
    /\ \A a \in Agents : units[a].pc = "none" \/ Finished(units, a)
    /\ fan' = [fan EXCEPT !.pc = "returned", !.ret = "None"]
    /\ UNCHANGED <<fagents, units, fcalls>>

FanoutNext ==
    \/ \E t \in {"monitor_agents_task", "check_in_task"} : FanStart(t)
    \/ \E pk \in Agents : UnitGet(pk)
    \/ \E pk \in Agents, r \in PingReplies : UnitPing(pk, r)
    \/ \E pk \in Agents : UnitRecover(pk)
    \/ \E pk \in Agents : UnitCheckIn(pk)
    \/ FanReturn

\* the same with units that can raise
FanoutFaultyNext ==
    \/ FanoutNext
    \/ \E pk \in Agents : UnitLookupRaises(pk)
    \/ \E pk \in Agents : UnitCallRaises(pk)

SpecFanout == FanoutInit /\ [][FanoutNext]_vars

SpecFanoutFaulty == FanoutInit /\ [][FanoutFaultyNext]_vars

\* ================================================= script result by mail
\* the emails argument and CoreSettings.email_alert_recipients
EmailLists == {<<>>, <<"a@example.com">>, <<"a@example.com", "b@example.com">>}
DefaultLists == {<<>>, <<"ops@example.com">>}

\* what agent.nats_cmd(nats_data, timeout=nats_timeout) returns: the string
\* "timeout", another string, or the script's result
ScriptReplies ==
    [kind : {"timeout", "string"}, retcode : {0}]
    \cup [kind : {"result"}, retcode : {0, 1}]

\* line 307: if r == "timeout"
TimedOut_Never(r) == FALSE
TimedOut(r) == r.kind = "timeout"

\* lines 326-329: if emails: ... else: CORE.email_alert_recipients
Recipients(emails, defaults) == IF emails # <<>> THEN emails ELSE defaults

\* the mail transport takes the message, or raises before it has, or takes
\* it and raises at quit()
SmtpOutcomes == {"sent", "raise", "sent, quit raises"}

ScriptInit ==
    /\ core \in [email_alert_recipients : DefaultLists,
                  smtp_requires_auth : BOOLEAN]
    /\ rs \in {IdleScript(e) : e \in EmailLists}
    /\ OthersOff("script")

\* lines 303-309: the call, and the return on "timeout"
RCall(reply) ==
    /\ UNCHANGED restScript
    /\ rs.pc = "start"
    /\ rs' = IF TimedOut(reply)
             THEN [rs EXCEPT !.r = reply, !.pc = "done",
                             !.log = Append(@, <<"error", "timed out running script">>)]
             ELSE [rs EXCEPT !.r = reply, !.pc = "compose"]
    /\ UNCHANGED core

\* lines 311-331: subject, body and recipients; r["execution_time"] raises
\* on a reply that is a string
RCompose ==
    /\ UNCHANGED restScript
    /\ rs.pc = "compose"
    /\ rs' = IF rs.r.kind # "result"
             THEN [rs EXCEPT !.pc = "raised"]
             ELSE [rs EXCEPT !.pc = "smtp",
                             !.to = Recipients(rs.emails,
                                               core.email_alert_recipients)]
    /\ UNCHANGED core

\* lines 333-345: send_message over SMTP, with or without login; any
\* exception is logged
RSmtp(outcome) ==
    /\ UNCHANGED restScript
    /\ rs.pc = "smtp"
    /\ rs' = [rs EXCEPT
                !.mails = IF outcome = "raise" THEN @
                          ELSE Append(@, [to |-> rs.to,
                                          retcode |-> rs.r.retcode,
                                          auth |-> core.smtp_requires_auth]),
                !.log = IF outcome = "sent" THEN @
                        ELSE Append(@, <<"error", "smtp">>),
                !.pc = "done"]
    /\ UNCHANGED core

ScriptNext ==
    \/ \E reply \in ScriptReplies : RCall(reply)
    \/ RCompose
    \/ \E o \in SmtpOutcomes : RSmtp(o)

SpecScript == ScriptInit /\ [][ScriptNext]_vars

\* ============================================================== uninstall
\* line 201: if attempts >= 10
AttemptsExhausted_Gt(n) == n > MaxAttempts
AttemptsExhausted(n) == n >= MaxAttempts

CallOutcomes == {"raise", "nack", "ok"}

\* line 173: the loop is entered only for an agent without nats
LoopEntry(has_nats) == IF ~has_nats THEN "loop" ELSE "log"

\* lines 212-228: the key.delete call is made once; the except branch logs
\* and falls through to the return
AfterKeyDelete_Retry(outcome) == IF outcome = "raise" THEN "key" ELSE "return"
AfterKeyDelete(outcome) == "return"

\* line 230: the value returned does not look at error
ReturnValue_Error(error) == IF error THEN "error" ELSE "ok"
ReturnValue(error) == "ok"

UninstallInit ==
    /\ un \in {IdleUninstall(h) : h \in BOOLEAN}
    /\ OthersOff("uninstall")

\* lines 170-173
UEnter ==
    /\ UNCHANGED restUninstall
    /\ un.pc = "start"
    /\ un' = [un EXCEPT !.pc = LoopEntry(un.has_nats)]

\* lines 175-205: one pass of the loop. The call raises, or returns a reply
\* that is not "ok", or returns "ok".
UCall(outcome) ==
    /\ UNCHANGED restUninstall
    /\ un.pc = "loop"
    /\ LET n == IF outcome = "ok" THEN 0 ELSE un.attempts + 1
       IN un' = [un EXCEPT !.calls = Append(@, outcome),
                           !.attempts = n,
                           !.error = IF AttemptsExhausted(n) THEN TRUE ELSE @,
                           !.pc = IF AttemptsExhausted(n) \/ n = 0
                                  THEN "log" ELSE "loop"]

\* lines 207-210
ULog ==
    /\ UNCHANGED restUninstall
    /\ un.pc = "log"
    /\ un' = [un EXCEPT !.log = Append(@, IF un.error
                                          THEN <<"error", "uninstall failed">>
                                          ELSE <<"info", "was successfully uninstalled">>),
                        !.pc = "key"]

\* lines 212-228: the key.delete call, which returns or raises
UKeyDelete(outcome) ==
    /\ UNCHANGED restUninstall
    /\ un.pc = "key"
    /\ un' = [un EXCEPT !.keyCalls = Append(@, outcome),
                        !.log = IF outcome = "raise"
                                THEN Append(@, <<"error", "unable to remove salt-key">>)
                                ELSE @,
                        !.pc = AfterKeyDelete(outcome)]

\* line 230
UReturn ==
    /\ UNCHANGED restUninstall
    /\ un.pc = "return"
    /\ un' = [un EXCEPT !.ret = ReturnValue(un.error), !.pc = "done"]

UninstallNext ==
    \/ UEnter
    \/ \E o \in CallOutcomes : UCall(o)
    \/ ULog
    \/ \E o \in {"ok", "raise"} : UKeyDelete(o)
    \/ UReturn

SpecUninstall == UninstallInit /\ [][UninstallNext]_vars

\* ============================================================== properties
\* proc[w].ret # "none": agent_update has ended for agent proc[w].cur and the
\* worker has not started on the next agent.

PushLegacy(pk) ==
    /\ agents[pk].arch # None
    /\ agents[pk].has_nats
    /\ VerLessEq(agents[pk].version, LegacyMax)

PushModern(pk) ==
    /\ agents[pk].arch # None
    /\ agents[pk].has_nats
    /\ VerLess(LegacyMax, agents[pk].version)

\* the latest pending agent-update action of the agent when the call began
OldAction(w) == LastRow(PendingUpdates(proc[w].pre, proc[w].cur))

\* C1: in every reachable state, overlapping agent_update invocations
\* included, each agent has at most one pending agentupdate PendingAction.
C1_OnePendingUpdatePerAgent ==
    \A a \in Agents : Cardinality(PendingUpdates(actions, a)) <= 1

\* C2: in every reachable state, overlapping outage sweeps included, each
\* agent has at most one active (unresolved) AgentOutage.
C2_OneActiveOutagePerAgent ==
    \A a \in Agents :
        Cardinality({r \in OutagesOf(outages, a) : is_active(r)}) <= 1

JobSet == DOMAIN jobs

\* C3: with sweeps run one after the other, an agent's outage is never
\* followed by a further record while it is unresolved, and each outage's
\* email and sms job is scheduled at most once, by the run that saved it.
C3_NoRepeatOutageOrJob ==
    /\ \A a \in Agents :
           \A r \in OutagesOf(outages, a) :
               is_active(r) => r = LastOutage(OutagesOf(outages, a))
    /\ \A j \in JobSet :
           /\ jobs[j] = 1
           /\ \E r \in outages : r.pk = j.pk /\ r.run = j.run
           /\ \A k \in JobSet : (k.task = j.task /\ k.pk = j.pk) => k = j

\* a later sweep has run to completion over an agent that was overdue, with
\* its outage of the first sweep unresolved and its jobs scheduled, all along
C3_Witness ==
    /\ sweep[1].pc = "idle"
    /\ sweep[1].run >= 2
    /\ \E r \in outages :
           /\ r.run = 1
           /\ is_active(r)
           /\ oagents[r.agent].status = "overdue"
           /\ \E j \in JobSet : j.pk = r.pk
    /\ \E r \in outages : ~is_active(r)

\* C4: once an auto-update run has completed, later sequential auto-update
\* runs leave every agent's set of pending agent-update actions as that run
\* left it, and no agent has more than one.
C4_AutoRerunStable ==
    stable.taken =>
        \A a \in Agents :
            /\ PendingUpdates(actions, a) = PendingUpdates(stable.rows, a)
            /\ Cardinality(PendingUpdates(actions, a)) <= 1

\* a second auto-update run has gone through an agent whose pending action
\* an earlier run created
C4_Witness ==
    /\ stable.taken
    /\ autoSince >= 2
    /\ proc[1].task = "auto"
    /\ proc[1].pc = "idle"
    /\ proc[1].ret = "pending"
    /\ \E r \in PendingUpdates(actions, proc[1].cur) : r.pk > Cardinality(Agents)

\* C5: what the targeted batch creates or dispatches for target version V
\* records version V.
C5_BatchTargetRecorded ==
    \A w \in Workers :
        (proc[w].task = "send" /\ proc[w].ret = "created") =>
            /\ proc[w].made # NoRow =>
                   VerCmp(proc[w].made.version, proc[w].target) = 0
            /\ proc[w].cmd # NoCmd =>
                   VerCmp(proc[w].cmd.version, proc[w].target) = 0

C6_Pre(w) ==
    /\ proc[w].ret # "none"
    /\ PushLegacy(proc[w].cur)
    /\ OldAction(w) # NoRow
    /\ VerLess(OldAction(w).version, latest)

\* C6: agent_update on a legacy push-capable agent whose latest pending
\* agent-update action records a version below the target returns created,
\* with the old action gone and exactly one pending agent-update action,
\* recording the target, left for the agent.
C6_ReplacesOlderAction ==
    \A w \in Workers :
        C6_Pre(w) =>
            /\ proc[w].ret = "created"
            /\ OldAction(w) \notin actions
            /\ Cardinality(PendingUpdates(actions, proc[w].cur)) = 1
            /\ \A r \in PendingUpdates(actions, proc[w].cur) :
                   r.version = latest /\ r = proc[w].made

C6_Witness == \E w \in Workers : C6_Pre(w) /\ proc[w].ret = "created"

C7_Pre(w) ==
    /\ proc[w].ret # "none"
    /\ PushLegacy(proc[w].cur)
    /\ OldAction(w) # NoRow
    /\ ~VerLess(OldAction(w).version, latest)

\* C7: agent_update on a legacy push-capable agent whose latest pending
\* agent-update action records a version at or above the target returns
\* pending and writes nothing and dispatches nothing.
C7_PendingWritesNothing ==
    \A w \in Workers :
        C7_Pre(w) =>
            /\ proc[w].ret = "pending"
            /\ actions = proc[w].pre
            /\ proc[w].nWrites = 0
            /\ proc[w].nSent = 0
            /\ proc[w].made = NoRow
            /\ proc[w].cmd = NoCmd

C7_Witness ==
    \E w \in Workers :
        /\ C7_Pre(w)
        /\ proc[w].ret = "pending"
        /\ OldAction(w).version = latest

C8_NoEffect(w) ==
    /\ actions = proc[w].pre
    /\ proc[w].nWrites = 0
    /\ proc[w].nSent = 0
    /\ proc[w].made = NoRow
    /\ proc[w].cmd = NoCmd

\* C8: an agent of unknown architecture gets noarch whatever its other
\* fields; an agent of known architecture that is not push-capable gets
\* "not supported"; neither call writes a PendingAction or dispatches.
C8_SkipOutcomes ==
    \A w \in Workers :
        proc[w].ret # "none" =>
            /\ agents[proc[w].cur].arch = None =>
                   proc[w].ret = "noarch" /\ C8_NoEffect(w)
            /\ (agents[proc[w].cur].arch # None
                  /\ ~agents[proc[w].cur].has_nats) =>
                   proc[w].ret = "not supported" /\ C8_NoEffect(w)

\* an agent with neither architecture nor push capability was answered noarch
C8_Witness ==
    \E w \in Workers :
        /\ proc[w].ret = "noarch"
        /\ ~agents[proc[w].cur].has_nats
        /\ PendingUpdates(actions, proc[w].cur) # {}

\* C9: for a push-capable agent of known architecture, a version above
\* 1.1.11 dispatches exactly one fire-and-forget agentupdate command, returns
\* created and writes no PendingAction; a version up to 1.1.11 dispatches
\* nothing; no invocation both writes a PendingAction and dispatches.
C9_OneDeliveryPath ==
    \A w \in Workers :
        /\ ~(proc[w].nWrites > 0 /\ proc[w].nSent > 0)
        /\ (proc[w].ret # "none" /\ PushModern(proc[w].cur)) =>
               /\ proc[w].ret = "created"
               /\ proc[w].nSent = 1
               /\ proc[w].cmd \in sent
               /\ proc[w].cmd.func = "agentupdate"
               /\ proc[w].cmd.agent = proc[w].cur
               /\ ~proc[w].cmd.wait
               /\ proc[w].nWrites = 0
               /\ actions = proc[w].pre
        /\ (proc[w].ret # "none" /\ PushLegacy(proc[w].cur)) =>
               /\ proc[w].nSent = 0
               /\ proc[w].cmd = NoCmd

\* a modern agent was sent its command and a legacy one, at the boundary
\* version 1.1.11, was queued a PendingAction instead
C9_Witness ==
    /\ proc[1].ret = "created"
    /\ proc[1].made # NoRow
    /\ agents[proc[1].cur].version = LegacyMax
    /\ \E c \in sent : PushModern(c.agent)

AllFailed(s) == \A i \in 1..Len(s) : s[i] # "ok"

FailureLogged == \E i \in 1..Len(un.log) : un.log[i] = <<"error", "uninstall failed">>

\* C10: for a pull-transport agent the uninstall loop makes at most 10 calls;
\* it goes on only after a failed call, leaves in the success state right
\* after the first call that succeeds, and leaves in the failed state exactly
\* when 10 calls in a row have failed.
C10_UninstallLoopBounded ==
    ~un.has_nats =>
        /\ Len(un.calls) <= 10
        /\ un.pc = "loop" =>
               /\ AllFailed(un.calls)
               /\ Len(un.calls) < 10
               /\ ~un.error
        /\ un.pc \notin {"start", "loop"} =>
               /\ Len(un.calls) >= 1
               /\ AllFailed(SubSeq(un.calls, 1, Len(un.calls) - 1))
               /\ un.error <=> (Len(un.calls) = 10 /\ AllFailed(un.calls))
               /\ ~un.error <=> un.calls[Len(un.calls)] = "ok"
               /\ ~un.error => ~FailureLogged

\* nine failed calls, raised and refused both, and then a success
C10_Witness ==
    /\ ~un.has_nats
    /\ un.pc = "done"
    /\ Len(un.calls) = 10
    /\ un.calls[10] = "ok"
    /\ \E i \in 1..9 : un.calls[i] = "raise"
    /\ \E i \in 1..9 : un.calls[i] = "nack"
    /\ ~un.error
    /\ ~FailureLogged

\* C11: in every run of uninstall_agent_task the key.delete call is made
\* exactly once, and only when the retry loop is over, whether it ended in
\* success, in ten failures or was not entered because the agent has nats (no
\* uninstall call is made then); a key.delete that fails is not made again.
C11_KeyDeleteOnceAfterLoop ==
    /\ Len(un.keyCalls) <= 1
    /\ un.pc \in {"start", "loop", "log", "key"} => un.keyCalls = <<>>
    /\ un.pc \in {"return", "done"} => Len(un.keyCalls) = 1
    /\ un.has_nats => un.calls = <<>>
    /\ (~un.has_nats /\ un.pc \in {"log", "key", "return", "done"}) =>
           \/ un.calls[Len(un.calls)] = "ok"
           \/ Len(un.calls) = MaxAttempts /\ AllFailed(un.calls)

\* the run for an agent with nats has ended: no uninstall call, and one
\* key.delete call, which raised
C11_Witness ==
    /\ un.has_nats
    /\ un.pc = "done"
    /\ un.calls = <<>>
    /\ un.keyCalls = <<"raise">>

\* C12: every completed run of uninstall_agent_task returns "ok"; a failed
\* uninstall shows only as the logged error, which is written exactly when
\* the loop ended in the failed state.
C12_AlwaysReturnsOk ==
    /\ un.ret \in {"none", "ok"}
    /\ un.pc = "done" <=> un.ret = "ok"
    /\ un.pc \in {"start", "loop", "log"} => ~FailureLogged
    /\ un.pc \in {"key", "return", "done"} =>
           /\ FailureLogged <=> un.error
           /\ un.error <=> /\ ~un.has_nats
                           /\ Len(un.calls) = MaxAttempts
                           /\ AllFailed(un.calls)

\* ten failed calls and a failed key.delete, and the run has returned "ok"
C12_Witness ==
    /\ un.pc = "done"
    /\ un.ret = "ok"
    /\ un.error
    /\ FailureLogged
    /\ un.keyCalls = <<"raise">>

\* C15: in the update batch drivers, a transport error raised while
\* agent_update works on one agent is logged and the batch goes on, so that a
\* batch that has ended has been through every agent it selected.
C15_BatchSurvivesTransportError ==
    \A w \in Workers : proc[w].pc = "idle" => proc[w].todo = <<>>

AutoQuiet(w) ==
    /\ proc[w].pc = "idle"
    /\ proc[w].called = <<>>
    /\ proc[w].todo = <<>>
    /\ proc[w].ret = "none"
    /\ proc[w].nWrites = 0
    /\ proc[w].nSent = 0
    /\ proc[w].made = NoRow
    /\ proc[w].cmd = NoCmd

AutoGate(w) ==
    proc[w].task = "auto" =>
        IF ~autoUpdate THEN AutoQuiet(w)
        ELSE proc[w].called \o proc[w].todo = AutoFilter

AutoSkip(w) ==
    (~autoUpdate /\ runs' = runs + 1 /\ proc'[w].task = "auto") =>
        /\ actions' = actions
        /\ nextPk' = nextPk
        /\ sent' = sent

\* C16: with the auto-update flag off, auto_self_agent_update_task calls
\* agent_update for no agent, creates or deletes no PendingAction and
\* dispatches no command; with the flag on, agent_update is called for
\* exactly the agents whose version is below the latest, one after the other.
C16_AutoUpdateGate ==
    /\ [](\A w \in Workers : AutoGate(w))
    /\ [][\A w \in Workers : AutoSkip(w)]_vars

\* a run with the flag off has ended over a fleet with an agent below the
\* latest version and a pending action on record
C16_Witness ==
    /\ ~autoUpdate
    /\ proc[1].task = "auto"
    /\ runs >= 2
    /\ AutoFilter # <<>>
    /\ \E a \in Agents : PendingUpdates(actions, a) # {}

\* C17: the outage sweep never schedules an email or sms job for an agent in
\* maintenance mode, never schedules a channel's job unless that channel's
\* alert flag is set, and saves an AgentOutage only for an agent it read as
\* overdue that has at least one alert flag set.
C17_SweepRespectsFlags ==
    /\ \A j \in JobSet :
           \E r \in outages :
               /\ r.pk = j.pk
               /\ ~oagents[r.agent].maintenance_mode
               /\ j.task = "agent_outage_email_task" =>
                      oagents[r.agent].overdue_email_alert
               /\ j.task = "agent_outage_sms_task" =>
                      oagents[r.agent].overdue_text_alert
    /\ \A r \in outages :
           /\ Alerting(oagents[r.agent])
           /\ r.seen = "overdue"

\* a sweep has saved the outage of an agent in maintenance mode, both of its
\* alert flags set, with no job for it, and that of an agent with the email
\* flag alone, with the email job and no sms job
C17_Witness ==
    /\ \A w \in Workers : sweep[w].pc = "idle"
    /\ \E r \in outages :
           /\ oagents[r.agent].maintenance_mode
           /\ oagents[r.agent].overdue_email_alert
           /\ oagents[r.agent].overdue_text_alert
           /\ \A j \in JobSet : j.pk # r.pk
    /\ \E r \in outages :
           /\ ~oagents[r.agent].overdue_text_alert
           /\ \E j \in JobSet : j.pk = r.pk /\ j.task = "agent_outage_email_task"
           /\ \A j \in JobSet : j.pk = r.pk => j.task # "agent_outage_sms_task"

Ended(task, pk) == \A e \in execs : ~(e.task = task /\ e.pk = pk)

\* C18: in each of the four notification jobs the delivery flag becomes true
\* only after the notifier was called and returned; when the notifier
\* raises, the flag is still false and the job has ended; the notifier is
\* called at most once for a kind of job and an outage, so the job is neither
\* run again nor queued again by a later sweep.
C18_FlagAfterNotifier ==
    \A r \in outages, t \in JobTasks :
        /\ r[FlagOf(t)] => Count(jlog, Event("notified", t, r.pk)) = 1
        /\ Running(t, r.pk, "save") =>
               Count(jlog, Event("notified", t, r.pk)) = 1
        /\ Count(jlog, Event("raised", t, r.pk)) > 0 =>
               /\ ~r[FlagOf(t)]
               /\ Ended(t, r.pk)
               /\ Count(jlog, Event("notified", t, r.pk)) = 0
        /\ Count(jlog, Event("started", t, r.pk)) <= 1
        /\ Count(jlog, Event("raised", t, r.pk)) <= 1
        /\ Count(jobs, [task |-> t, pk |-> r.pk, run |-> r.run])
             + Count(jlog, Event("started", t, r.pk)) <= 1

\* the notifier of the outage email job raised, and a later sweep has run
\* over the agent with the outage unresolved, while the sms job delivered
C18_Witness ==
    \E r \in outages :
        /\ is_active(r)
        /\ Count(jlog, Event("raised", "agent_outage_email_task", r.pk)) = 1
        /\ r.outage_sms_sent
        /\ ~r.outage_email_sent
        /\ sweep[1].run > r.run
        /\ sweep[1].pc = "idle"

Saved(t, pk) ==
    Count(jlog, Event("saved", t, pk)) + Count(jlog, Event("saved late", t, pk))

\* no step takes back a delivery flag or the resolution of an outage
KeepsColumns ==
    \A r \in outages :
        \E q \in outages' :
            /\ q.pk = r.pk
            /\ r.recovered => q.recovered
            /\ \A t \in JobTasks : r[FlagOf(t)] => q[FlagOf(t)]

\* C20: a notification job writes its own flag and no other column: no save
\* takes back what another job or a check-in wrote since the job read the
\* row, and with the outage email and sms jobs of one outage both done, both
\* flags are true.
C20_OwnFlagOnly ==
    /\ [](\A r \in outages, t \in JobTasks :
             Saved(t, r.pk) > 0 => r[FlagOf(t)])
    /\ [][KeepsColumns]_vars

\* the email and the sms job of one unresolved outage have both saved, the
\* later of them from a copy read before the other wrote
C20_Witness ==
    \E r \in outages :
        /\ is_active(r)
        /\ r.outage_email_sent
        /\ r.outage_sms_sent
        /\ Saved("agent_outage_email_task", r.pk) = 1
        /\ Count(jlog, Event("saved late", "agent_outage_sms_task", r.pk)) = 1

Stale(pk) == fagents[pk].has_nats /\ fagents[pk].status # "online"

\* C13: in monitor_agents_task a ping is sent to an agent only if it has
\* nats and its status is not online, and by the time the sweep returns to
\* each of those agents, once; the recover command (mode tacagent) is sent to
\* an agent exactly when it was selected and its ping was answered "pong";
\* after a timeout or any other answer nothing is sent.
C13_PingThenRecover ==
    fan.task = "monitor_agents_task" =>
        \A a \in Agents :
            /\ Count(fcalls, PingCall(a)) <= 1
            /\ Count(fcalls, PingCall(a)) = 1 => Stale(a)
            /\ Count(fcalls, RecoverCmd(a)) <= 1
            /\ Count(fcalls, RecoverCmd(a)) = 1 =>
                   /\ Stale(a)
                   /\ Count(fcalls, PingCall(a)) = 1
                   /\ units[a].reply = "pong"
            /\ Count(fcalls, CheckInCmd(a)) = 0
            /\ fan.pc = "returned" =>
                   /\ Count(fcalls, PingCall(a)) = 1 <=> Stale(a)
                   /\ Count(fcalls, RecoverCmd(a)) = 1 <=>
                          (Stale(a) /\ units[a].reply = "pong")

\* the sweep has returned: one agent answered "pong" and was sent the
\* recover command, another answered something that is neither "pong" nor
\* "timeout" and was sent nothing
C13_Witness ==
    /\ fan.task = "monitor_agents_task"
    /\ fan.pc = "returned"
    /\ \E a \in Agents :
           units[a].reply = "pong" /\ Count(fcalls, RecoverCmd(a)) = 1
    /\ \E a \in Agents :
           units[a].reply = "natsdown" /\ Count(fcalls, RecoverCmd(a)) = 0

Picked(pk) ==
    IF fan.task = "monitor_agents_task" THEN Stale(pk)
    ELSE ~VerLess(fagents[pk].version, CheckInMin)

\* C14: in monitor_agents_task and check_in_task a unit that raises, at the
\* registry lookup or at a transport call, stops no other unit: no unit is
\* dropped, and when the sweep returns, which it does without raising, the
\* unit of every selected agent has been started and has ended.
C14_UnitFailureIsolated ==
    /\ \A a \in Agents : units[a].pc # "cancelled"
    /\ fan.ret \in {"none", "None"}
    /\ fan.pc # "idle" =>
           \A a \in Agents : Picked(a) <=> units[a].pc # "none"
    /\ fan.pc = "returned" =>
           /\ fan.ret = "None"
           /\ \A a \in Agents : Picked(a) => units[a].pc \in {"done", "raised"}

\* the sweep has returned with one unit that raised and another that was
\* started after that and sent its command
C14_Witness ==
    /\ fan.pc = "returned"
    /\ \E a, b \in Agents :
           /\ units[a].pc = "raised"
           /\ units[b].pc = "done"
           /\ units[b].after = 1
           /\ Count(fcalls, CheckInCmd(b)) = 1

\* C19: when the call of run_script_email_results_task comes back as
\* "timeout" the task ends with the error logged, no mail composed or
\* submitted and nothing raised; a mail is submitted only after another
\* reply, once, to the emails argument when it is not empty and to
\* CoreSettings.email_alert_recipients otherwise.
C19_TimeoutSendsNoMail ==
    /\ Len(rs.mails) <= 1
    /\ rs.r.kind = "result" => rs.pc # "raised"
    /\ (rs.pc # "start" /\ rs.r.kind = "timeout") =>
           /\ rs.pc = "done"
           /\ rs.mails = <<>>
           /\ rs.to = <<>>
           /\ rs.log = <<<<"error", "timed out running script">>>>
    /\ \A i \in 1..Len(rs.mails) :
           /\ rs.r.kind = "result"
           /\ rs.mails[i].retcode = rs.r.retcode
           /\ rs.emails # <<>> => rs.mails[i].to = rs.emails
           /\ rs.emails = <<>> => rs.mails[i].to = core.email_alert_recipients

\* a result with a non-zero return code has been mailed to the configured
\* recipients, the caller having named none
C19_Witness ==
    /\ rs.pc = "done"
    /\ rs.emails = <<>>
    /\ rs.r.retcode = 1
    /\ Len(rs.mails) = 1
    /\ rs.mails[1].to = <<"ops@example.com">>

====
